---- MODULE Spec2Model ----
(***************************************************************************)
(* The chat route of the ArkWork backend (src/src/routes/chat.ts): the     *)
(* POST / handler, its zod schemas and its helpers, as a state machine.    *)
(*                                                                         *)
(* JavaScript values are tagged records: [t |-> "undefined"],              *)
(* [t |-> "string", v |-> s], [t |-> "number", v |-> m], [t |-> "array",   *)
(* v |-> a] and [t |-> "object", ...].  A string's v is the sequence of    *)
(* its pieces: caller-supplied and provider-supplied strings are given     *)
(* character by character (their length and their whitespace matter to the *)
(* code), the fixed literals of the source are given as one piece each.    *)
(* A number's v is the number in thousandths, so that 0.3, 100.5 and 64    *)
(* are all integers of the model.                                          *)
(*                                                                         *)
(* The handler keeps nothing between requests and shares nothing but the   *)
(* read-only credential, so one request at a time is followed from its     *)
(* arrival to its response.  The SDK constructors and startChat            *)
(* (chat.ts:149-166) are taken to return; the provider call proper,        *)
(* chat.sendMessage, may resolve with any result or reject with any value. *)
(***************************************************************************)
EXTENDS Integers, Sequences, FiniteSets, TLC

VARIABLES
    GEMINI_API_KEY,  \* the credential read once at start-up ("" when unset)
    pc,              \* "idle", "awaiting" (suspended at the await), "done"
    req,             \* req.body of the request being handled
    calls,           \* chat.sendMessage calls made for this request, in order
    responses,       \* responses sent for this request, in order
    outcome,         \* what the provider call produced for this request
    serverLog        \* console.error records written for this request

vars == <<GEMINI_API_KEY, pc, req, calls, responses, outcome, serverLog>>

(***************************** program constants ***************************)

MAX_TEXT == 4000
KEEP == 6
MIN_OUTPUT_TOKENS == 64
MAX_OUTPUT_TOKENS == 2048
DEFAULT_OUTPUT_TOKENS == 512

(********************************* bounds **********************************)

\* Longest `messages` array enumerated over the full message alphabet.
MaxMsgs == 2
\* Longest `messages` array enumerated for the history window.
MaxHist == 8
\* How far beyond MAX_TEXT the longest enumerated content reaches.
MaxExtra == 1

(******************************* JS values *********************************)

Undef == [t |-> "undefined"]
Str(s) == [t |-> "string", v |-> s]
Whole(i) == [t |-> "number", v |-> i * 1000]
Frac(m) == [t |-> "number", v |-> m]
Arr(a) == [t |-> "array", v |-> a]

IsUndef(x) == x.t = "undefined"
IsString(x) == x.t = "string"
IsNumber(x) == x.t = "number"
IsArray(x) == x.t = "array"
IsObject(x) == x.t = "object"
IsInteger(x) == IsNumber(x) /\ x.v % 1000 = 0

\* JavaScript truthiness of the values the handler tests with ||, ! and ?.
Truthy(x) ==
    CASE IsUndef(x) -> FALSE
      [] IsString(x) -> x.v # <<>>
      [] IsNumber(x) -> x.v # 0
      [] OTHER -> TRUE

\* a || b
OrElse(a, b) == IF Truthy(a) THEN a ELSE b

\* String.prototype.trim: the white space of both ends removed.
IsSpace(c) == c \in {" ", "\t", "\n"}

RECURSIVE FirstNonSpace(_, _)
FirstNonSpace(s, i) ==
    IF i > Len(s) THEN i
    ELSE IF IsSpace(s[i]) THEN FirstNonSpace(s, i + 1) ELSE i

RECURSIVE LastNonSpace(_, _)
LastNonSpace(s, i) ==
    IF i < 1 THEN i
    ELSE IF IsSpace(s[i]) THEN LastNonSpace(s, i - 1) ELSE i

Trim(s) == SubSeq(s, FirstNonSpace(s, 1), LastNonSpace(s, Len(s)))

(******************************* validation ********************************)

S_user == <<"u", "s", "e", "r">>
S_assistant == <<"a", "s", "s", "i", "s", "t", "a", "n", "t">>
S_model == <<"m", "o", "d", "e", "l">>
S_system == <<"s", "y", "s", "t", "e", "m">>
S_news == <<"n", "e", "w", "s">>
S_jobs == <<"j", "o", "b", "s">>
S_consult == <<"c", "o", "n", "s", "u", "l", "t">>

\* One issue of a ZodError: the field, the array index (0 when none) and the
\* sub-field ("" when none) it is about.
Issue(f, i, s) == [field |-> f, index |-> i, sub |-> s]

\* MsgSchema, applied to element i of `messages`.
MsgIssues(m, i) ==
    (IF IsUndef(m.role) \/ IsString(m.role)
     THEN {} ELSE {Issue("messages", i, "role")})
    \cup
    (IF IsString(m.content) /\ Len(m.content.v) >= 1
     THEN {} ELSE {Issue("messages", i, "content")})

MsgParsed(m) ==
    [role |-> IF IsUndef(m.role) THEN Str(S_user) ELSE m.role,
     content |-> m.content]

\* MessagesIssues with the .min(1) of the array left out.
MessagesIssuesNoMin(x) ==
    IF ~IsArray(x) THEN {Issue("messages", 0, "")}
    ELSE UNION {MsgIssues(x.v[i], i) : i \in 1..Len(x.v)}

MessagesIssues(x) ==
    IF ~IsArray(x) THEN {Issue("messages", 0, "")}
    ELSE (IF Len(x.v) >= 1 THEN {} ELSE {Issue("messages", 0, "")})
         \cup UNION {MsgIssues(x.v[i], i) : i \in 1..Len(x.v)}

IntentIssues(x) ==
    IF IsUndef(x) THEN {}
    ELSE IF IsString(x) /\ x.v \in {S_news, S_jobs, S_consult} THEN {}
    ELSE {Issue("intent", 0, "")}

ProfileTextFields == {"name", "role", "skills", "location", "interests"}

ProfileIssues(x) ==
    IF IsUndef(x) THEN {}
    ELSE IF ~IsObject(x) THEN {Issue("profile", 0, "")}
    ELSE {Issue("profile", 0, f) :
            f \in {g \in ProfileTextFields : ~(IsUndef(x[g]) \/ IsString(x[g]))}}
         \cup (IF IsUndef(x.experienceYears) \/ IsNumber(x.experienceYears)
               THEN {} ELSE {Issue("profile", 0, "experienceYears")})

\* MaxOutputTokensIssues with exclusive bounds.
MaxOutputTokensIssuesExclusive(x) ==
    IF IsUndef(x) THEN {}
    ELSE IF /\ IsInteger(x)
            /\ x.v > MIN_OUTPUT_TOKENS * 1000
            /\ x.v < MAX_OUTPUT_TOKENS * 1000 THEN {}
    ELSE {Issue("maxOutputTokens", 0, "")}

MaxOutputTokensIssues(x) ==
    IF IsUndef(x) THEN {}
    ELSE IF /\ IsInteger(x)
            /\ x.v >= MIN_OUTPUT_TOKENS * 1000
            /\ x.v <= MAX_OUTPUT_TOKENS * 1000 THEN {}
    ELSE {Issue("maxOutputTokens", 0, "")}

TemperatureIssues(x) ==
    IF IsUndef(x) THEN {}
    ELSE IF IsNumber(x) /\ x.v >= 0 /\ x.v <= 1000 THEN {}
    ELSE {Issue("temperature", 0, "")}

EmptyBody ==
    [t |-> "object", messages |-> Undef, intent |-> Undef, profile |-> Undef,
     maxOutputTokens |-> Undef, temperature |-> Undef]

\* req.body ?? {}
BodyOrEmpty(body) == IF IsUndef(body) THEN EmptyBody ELSE body

\* AskSchema: every violated field is reported, not only the first.
AskIssues(x) ==
    IF ~IsObject(x) THEN {Issue("", 0, "")}
    ELSE MessagesIssues(x.messages) \cup IntentIssues(x.intent)
         \cup ProfileIssues(x.profile)
         \cup MaxOutputTokensIssues(x.maxOutputTokens)
         \cup TemperatureIssues(x.temperature)

AskData(x) ==
    [messages |-> [i \in 1..Len(x.messages.v) |-> MsgParsed(x.messages.v[i])],
     intent |-> IF IsUndef(x.intent) THEN Str(S_news) ELSE x.intent,
     profile |-> x.profile,
     maxOutputTokens |-> x.maxOutputTokens,
     temperature |-> x.temperature]

\* AskSchema.safeParse
SafeParse(x) ==
    IF AskIssues(x) = {}
    THEN [success |-> TRUE, data |-> AskData(x)]
    ELSE [success |-> FALSE, error |-> AskIssues(x)]

(********************************* helpers *********************************)

\* clampText cutting one character short of max.
clampTextOffByOne(s, max) ==
    IF ~Truthy(s) THEN Str(<<>>)
    ELSE IF Len(s.v) > max THEN Str(SubSeq(s.v, 1, max - 1)) ELSE s

\* clampText(s, max)
clampText(s, max) ==
    IF ~Truthy(s) THEN Str(<<>>)
    ELSE IF Len(s.v) > max THEN Str(SubSeq(s.v, 1, max)) ELSE s

\* Array.prototype.slice(-k): the last k elements (slice(-0) is the whole array).
SliceLast(a, k) ==
    IF k = 0 \/ Len(a) <= k THEN a ELSE SubSeq(a, Len(a) - k + 1, Len(a))

\* Array.prototype.slice(0, -1): all but the last element.
DropLast(a) == IF a = <<>> THEN a ELSE SubSeq(a, 1, Len(a) - 1)

\* (m) => m.content?.trim()
HasText(m) == Truthy(m.content) /\ Trim(m.content.v) # <<>>

\* (m) => ({ role: ..., parts: [{ text: clampText(m.content, 4000) }] })
ToTurn(m) ==
    [role |-> IF m.role = Str(S_assistant) THEN Str(S_model) ELSE Str(S_user),
     parts |-> <<[text |-> clampText(m.content, MAX_TEXT)]>>]

\* toGeminiHistory keeping the first `keep` messages instead of the last.
toGeminiHistoryFirst(messages, keep) ==
    LET recent == SubSeq(messages, 1, IF Len(messages) < keep THEN Len(messages) ELSE keep)
        kept == SelectSeq(recent, HasText)
    IN [i \in 1..Len(kept) |-> ToTurn(kept[i])]

\* toGeminiHistory(messages, keep)
toGeminiHistory(messages, keep) ==
    LET recent == SliceLast(messages, keep)
        kept == SelectSeq(recent, HasText)
    IN [i \in 1..Len(kept) |-> ToTurn(kept[i])]

ProfileFieldJson(p, f) ==
    IF IsUndef(p[f]) THEN <<>>
    ELSE IF IsString(p[f]) THEN <<f, ":", "\"">> \o p[f].v \o <<"\"">>
    ELSE <<f, ":", ToString(p[f].v)>>

\* JSON.stringify(profile, null, 2), or the placeholder of the template.
ProfileJson(p) ==
    IF ~Truthy(p) THEN <<"(tidak ada profil)">>
    ELSE <<"{">> \o ProfileFieldJson(p, "name") \o ProfileFieldJson(p, "role")
         \o ProfileFieldJson(p, "skills") \o ProfileFieldJson(p, "location")
         \o ProfileFieldJson(p, "experienceYears")
         \o ProfileFieldJson(p, "interests") \o <<"}">>

\* modes[intent] || modes.news
ModeText(intent) ==
    IF intent = Str(S_jobs) THEN "Mode: **Rekomendasi Kerja** ..."
    ELSE IF intent = Str(S_consult) THEN "Mode: **Konsultasi** ..."
    ELSE "Mode: **Berita** ..."

\* buildSystemPrompt(intent, profile): each fixed paragraph of the template
\* stands as one piece, the profile is serialised member by member.
buildSystemPrompt(intent, profile) ==
    Str(<<"Kamu adalah **ArkWork Agent** ... Profil pengguna:">>
        \o ProfileJson(profile)
        \o <<"\n\n", ModeText(intent), "\n\n",
             "Balas ringkas, langsung ke inti, dan mudah dieksekusi.">>)

(****************************** POST handler *******************************)

\* JSON.stringify of a response body: undefined members are left out.
Json(obj) == [k \in {j \in DOMAIN obj : ~IsUndef(obj[j])} |-> obj[k]]

Respond(status, body) ==
    [calls |-> <<>>, responses |-> <<[status |-> status, body |-> Json(body)]>>]

KeyMissingBody ==
    [error |-> Str(<<"GEMINI_API_KEY_MISSING">>),
     message |-> Str(<<"Server AI belum dikonfigurasi. Hubungi admin.">>)]

\* details: parsed.error.format()
BadRequestBody(issues) ==
    [error |-> Str(<<"BAD_REQUEST">>),
     details |-> [t |-> "object", issues |-> issues]]

GreetingBody ==
    [answer |-> Str(<<"Halo! Saya ArkWork Agent. Saya bisa bantu ringkas berita migas, rekomendasi kerja, dan konsultasi langkah praktis. Coba: \"Berita LNG Indonesia terbaru dalam 3 poin.\"">>)]

EmptyResponseBody ==
    [error |-> Str(<<"EMPTY_RESPONSE">>),
     message |-> Str(<<"AI tidak mengembalikan teks.">>)]

\* messages[messages.length - 1]?.content || ''
LastContent(messages) ==
    IF messages = <<>> THEN Str(<<>>)
    ELSE OrElse(messages[Len(messages)].content, Str(<<>>))

\* IsBlank without the trim: !user
IsBlankNoTrim(user) == user.v = <<>>

\* !user.trim()
IsBlank(user) == Trim(user.v) = <<>>

\* model.startChat({ history, generationConfig }), then chat.sendMessage(...)
SendMessage(data, user) ==
    [calls |->
        <<[history |->
              <<[role |-> Str(S_user),
                 parts |-> <<[text |-> buildSystemPrompt(data.intent, data.profile)]>>],
                [role |-> Str(S_model), parts |-> <<[text |-> Str(<<"Siap.">>)]>>]>>
              \o toGeminiHistory(DropLast(data.messages), KEEP),
           generationConfig |->
              [maxOutputTokens |->
                  IF IsUndef(data.maxOutputTokens)
                  THEN Whole(DEFAULT_OUTPUT_TOKENS) ELSE data.maxOutputTokens,
               temperature |->
                  IF IsUndef(data.temperature) THEN Frac(300) ELSE data.temperature],
           message |-> clampText(user, MAX_TEXT)]>>,
     responses |-> <<>>]

\* Handle with validation ahead of the credential check.
HandleValidateFirst(key, body) ==
    LET parsed == SafeParse(BodyOrEmpty(body)) IN
    IF ~parsed.success THEN Respond(400, BadRequestBody(parsed.error))
    ELSE IF key = "" THEN Respond(503, KeyMissingBody)
    ELSE LET user == LastContent(parsed.data.messages) IN
         IF IsBlank(user) THEN Respond(200, GreetingBody)
         ELSE SendMessage(parsed.data, user)

\* The handler up to its await: the responses it sends and the calls it makes.
Handle(key, body) ==
    IF key = "" THEN Respond(503, KeyMissingBody)
    ELSE LET parsed == SafeParse(BodyOrEmpty(body)) IN
         IF ~parsed.success THEN Respond(400, BadRequestBody(parsed.error))
         ELSE LET user == LastContent(parsed.data.messages) IN
              IF IsBlank(user) THEN Respond(200, GreetingBody)
              ELSE SendMessage(parsed.data, user)

\* err?.f
ErrField(err, f) == IF IsObject(err) THEN err[f] ELSE Undef

\* OnCatch handing the name and the stack of the exception to the client.
OnCatchLeaky(err) ==
    [calls |-> <<>>,
     log |-> <<>>,
     responses |->
        <<[status |-> 502,
           body |-> Json([error |-> Str(<<"AI_ERROR">>),
                          code |-> OrElse(ErrField(err, "code"), ErrField(err, "status")),
                          name |-> ErrField(err, "name"),
                          stack |-> ErrField(err, "stack"),
                          message |-> OrElse(ErrField(err, "message"),
                                             Str(<<"Gagal meminta jawaban dari AI.">>))])]>>]

\* The catch block: the server-side log record and the client response.
OnCatch(err) ==
    [calls |-> <<>>,
     log |-> <<[message |-> OrElse(ErrField(err, "message"), err),
                code |-> ErrField(err, "code"),
                status |-> ErrField(err, "status"),
                name |-> ErrField(err, "name")]>>,
     responses |->
        <<[status |-> 502,
           body |-> Json([error |-> Str(<<"AI_ERROR">>),
                          code |-> OrElse(ErrField(err, "code"), ErrField(err, "status")),
                          message |-> OrElse(ErrField(err, "message"),
                                             Str(<<"Gagal meminta jawaban dari AI.">>))])]>>]

\* result.response?.text?.(): the value it yields, or the exception it raises.
CallText(result) ==
    IF ~IsObject(result.response) THEN [kind |-> "return", value |-> Undef]
    ELSE IF IsUndef(result.response.text) THEN [kind |-> "return", value |-> Undef]
    ELSE result.response.text.completion

\* AfterSend testing and answering the text as it came: !text, no trim.
AfterSendNoTrim(result) ==
    LET c == CallText(result) IN
    IF c.kind = "throw" THEN OnCatch(c.value)
    ELSE LET text == OrElse(c.value, Str(<<>>)) IN
         IF text.v = <<>>
         THEN [calls |-> <<>>, log |-> <<>>,
               responses |-> <<[status |-> 502, body |-> Json(EmptyResponseBody)]>>]
         ELSE [calls |-> <<>>, log |-> <<>>,
               responses |-> <<[status |-> 200, body |-> Json([answer |-> text])]>>]

\* AfterSend sending the message a second time when the text is empty.
AfterSendRetry(result) ==
    LET c == CallText(result) IN
    IF c.kind = "throw" THEN OnCatch(c.value)
    ELSE LET text == OrElse(c.value, Str(<<>>)) IN
         IF Trim(text.v) = <<>>
         THEN [calls |-> <<calls[1]>>, log |-> <<>>,
               responses |-> <<[status |-> 502, body |-> Json(EmptyResponseBody)]>>]
         ELSE [calls |-> <<>>, log |-> <<>>,
               responses |-> <<[status |-> 200,
                                body |-> Json([answer |-> Str(Trim(text.v))])]>>]

\* The handler after the await resolved with `result`.
AfterSend(result) ==
    LET c == CallText(result) IN
    IF c.kind = "throw" THEN OnCatch(c.value)
    ELSE LET text == OrElse(c.value, Str(<<>>)) IN
         IF Trim(text.v) = <<>>
         THEN [calls |-> <<>>, log |-> <<>>,
               responses |-> <<[status |-> 502, body |-> Json(EmptyResponseBody)]>>]
         ELSE [calls |-> <<>>, log |-> <<>>,
               responses |-> <<[status |-> 200,
                                body |-> Json([answer |-> Str(Trim(text.v))])]>>]

(********************************* inputs **********************************)

\* A content of n characters whose first and whose overflowing characters
\* differ from the rest, so that a prefix is told from any other cut.
LongText(n) ==
    Str([i \in 1..n |-> IF i = 1 THEN "x" ELSE IF i > MAX_TEXT THEN "z" ELSE "y"])

LongContents == {LongText(MAX_TEXT + e) : e \in (-1)..MaxExtra}

Msg(role, content) == [role |-> role, content |-> content]

\* The message alphabet of the short conversations.
ShortMsgs ==
    {Msg(Str(S_user), Str(<<"a">>)),
     Msg(Str(S_assistant), Str(<<"b">>)),
     Msg(Undef, Str(<<" ">>)),
     Msg(Str(S_user), Str(<<>>)),
     Msg(Str(S_user), Str(<<" ", "c", "\n">>)),
     Msg(Str(S_user), Undef),
     Msg(Whole(1), Str(<<"a">>))}
    \cup {Msg(Str(S_system), c) : c \in LongContents}

RECURSIVE SeqsUpTo(_, _)
SeqsUpTo(S, n) ==
    IF n = 0 THEN {<<>>}
    ELSE LET shorter == SeqsUpTo(S, n - 1)
         IN shorter \cup {Append(q, m) : q \in {r \in shorter : Len(r) = n - 1}, m \in S}

Body(messages, intent, profile, maxOutputTokens, temperature) ==
    [t |-> "object", messages |-> messages, intent |-> intent, profile |-> profile,
     maxOutputTokens |-> maxOutputTokens, temperature |-> temperature]

\* Conversations of up to MaxMsgs messages over the whole alphabet.
ShortBodies ==
    {Body(Arr(q), Undef, Undef, Undef, Undef) : q \in SeqsUpTo(ShortMsgs, MaxMsgs)}

\* Message i of a long conversation; its content names its position.
HistMsg(i, kind) ==
    CASE kind = "user" -> Msg(Str(S_user), Str(<<"u", ToString(i)>>))
      [] kind = "assistant" -> Msg(Str(S_assistant), Str(<<"a", ToString(i)>>))
      [] kind = "system" -> Msg(Str(S_system), Str(<<"s", ToString(i)>>))
      [] kind = "norole" -> Msg(Undef, Str(<<"n", ToString(i)>>))
      [] kind = "blank" -> Msg(Str(S_assistant), Str(<<" ", "\t">>))
      [] kind = "long" -> Msg(Str(S_assistant), LongText(MAX_TEXT + MaxExtra))

HistKinds == {"user", "assistant", "system", "norole", "blank", "long"}

\* Conversations of up to MaxHist messages: user and assistant turns in
\* alternation, with up to two of them replaced by a message of another kind.
HistBodies ==
    {Body(Arr([i \in 1..n |->
                  HistMsg(i, IF i = k1 THEN c1
                             ELSE IF i = k2 THEN c2
                             ELSE IF i % 2 = 1 THEN "user" ELSE "assistant")]),
          Undef, Undef, Undef, Undef) :
        n \in (MaxMsgs + 1)..MaxHist, k1 \in 1..MaxHist, c1 \in HistKinds,
        k2 \in 1..MaxHist, c2 \in {"blank", "system"}}

GoodProfile ==
    [t |-> "object", name |-> Str(<<"A", "d", "i">>), role |-> Undef,
     skills |-> Undef, location |-> Undef, experienceYears |-> Whole(3),
     interests |-> Undef]

BadProfile == [GoodProfile EXCEPT !.experienceYears = Str(<<"3">>)]

\* One-message requests over every kind of value of the other members.
OptionBodies ==
    {Body(m, i, p, k, x) :
        m \in {Undef, Str(<<"a">>), Arr(<<>>),
               Arr(<<Msg(Str(S_user), Str(<<"a">>))>>),
               Arr(<<Msg(Str(S_user), Str(<<" ">>))>>)},
        i \in {Undef, Str(S_news), Str(S_jobs), Str(S_consult),
               Str(<<"o", "t", "h", "e", "r">>), Whole(1)},
        p \in {Undef, GoodProfile, BadProfile, Str(<<"p">>)},
        k \in {Undef, Whole(MIN_OUTPUT_TOKENS - 1), Whole(MIN_OUTPUT_TOKENS),
               Whole(MAX_OUTPUT_TOKENS), Whole(MAX_OUTPUT_TOKENS + 1),
               Frac(100500), Str(<<"6", "4">>)},
        x \in {Undef, Frac(-1), Frac(0), Frac(300), Frac(1000), Frac(1001),
               Whole(2), Str(<<"0">>)}}

Bodies == {Undef, Whole(1)} \cup ShortBodies \cup HistBodies \cup OptionBodies

TextFn(completion) == [t |-> "function", completion |-> completion]

Returns(v) == [kind |-> "return", value |-> v]

Throws(e) == [kind |-> "throw", value |-> e]

ErrObj(message, code, status) ==
    [t |-> "object", message |-> message, code |-> code, status |-> status,
     name |-> Str(<<"GoogleGenerativeAIError">>),
     stack |-> Str(<<"GoogleGenerativeAIError: ... at ChatSession.sendMessage">>)]

\* What a provider call may throw: any value, Error objects among them.
Errors ==
    {Undef, Str(<<"b", "o", "o", "m">>),
     ErrObj(Str(<<"q", "u", "o", "t", "a">>), Undef, Whole(429)),
     ErrObj(Str(<<>>), Str(<<"E", "C", "O", "N", "N">>), Undef),
     ErrObj(Undef, Whole(0), Whole(500)),
     ErrObj(Str(<<"m">>), Whole(0), Undef),
     ErrObj(Str(<<"m">>), Whole(7), Whole(429)),
     ErrObj(Undef, Undef, Undef)}

\* What chat.sendMessage may resolve with.
Results ==
    {[t |-> "object", response |-> Undef],
     [t |-> "object", response |-> [t |-> "object", text |-> Undef]]}
    \cup {[t |-> "object", response |-> [t |-> "object", text |-> TextFn(c)]] :
            c \in {Returns(Undef), Returns(Str(<<>>)), Returns(Str(<<" ", "\n">>)),
                   Returns(Str(<<"h", "i">>)),
                   Returns(Str(<<" ", "h", " ", "i", "\n">>)),
                   Throws(ErrObj(Str(<<"b", "l", "o", "c", "k", "e", "d">>),
                                 Undef, Undef))}}

(********************************* actions *********************************)

NoRequest == [t |-> "none"]
NoOutcome == [kind |-> "none"]

Init ==
    /\ (GEMINI_API_KEY = "key" \/ GEMINI_API_KEY = "")
    /\ pc = "idle"
    /\ req = NoRequest
    /\ calls = <<>>
    /\ responses = <<>>
    /\ outcome = NoOutcome
    /\ serverLog = <<>>

\* A POST arrives; the handler runs to its first response or to its await.
Post ==
    /\ pc = "idle"
    /\ \E body \in Bodies :
         LET h == Handle(GEMINI_API_KEY, body) IN
         /\ req' = body
         /\ calls' = h.calls
         /\ responses' = h.responses
         /\ pc' = IF h.responses = <<>> THEN "awaiting" ELSE "done"
    /\ UNCHANGED <<GEMINI_API_KEY, outcome, serverLog>>

\* The awaited chat.sendMessage resolves; the handler runs to its response.
ProviderResolve ==
    /\ pc = "awaiting"
    /\ \E result \in Results :
         LET h == AfterSend(result) IN
         /\ outcome' = [kind |-> "resolved", result |-> result]
         /\ calls' = calls \o h.calls
         /\ responses' = responses \o h.responses
         /\ serverLog' = serverLog \o h.log
    /\ pc' = "done"
    /\ UNCHANGED <<GEMINI_API_KEY, req>>

\* The awaited chat.sendMessage rejects; the catch block runs.
ProviderReject ==
    /\ pc = "awaiting"
    /\ \E err \in Errors :
         LET h == OnCatch(err) IN
         /\ outcome' = [kind |-> "rejected", err |-> err]
         /\ calls' = calls \o h.calls
         /\ responses' = responses \o h.responses
         /\ serverLog' = serverLog \o h.log
    /\ pc' = "done"
    /\ UNCHANGED <<GEMINI_API_KEY, req>>

\* The handler has returned; nothing of the request is kept for the next one.
Complete ==
    /\ pc = "done"
    /\ pc' = "idle"
    /\ req' = NoRequest
    /\ calls' = <<>>
    /\ responses' = <<>>
    /\ outcome' = NoOutcome
    /\ serverLog' = <<>>
    /\ UNCHANGED GEMINI_API_KEY

Next == Post \/ ProviderResolve \/ ProviderReject \/ Complete

Spec == Init /\ [][Next]_vars

(********************************* claims **********************************)

Handled == pc # "idle"
Answered == pc = "done"
HasKey == GEMINI_API_KEY # ""
Status == responses[1].status
ResBody == responses[1].body
ErrorIs(name) == "error" \in DOMAIN ResBody /\ ResBody.error = Str(<<name>>)
AnsweredOnce == Answered /\ Len(responses) = 1
InputError == AnsweredOnce /\ Status = 400 /\ ErrorIs("BAD_REQUEST")
Greeted == AnsweredOnce /\ Status = 200 /\ ResBody = GreetingBody

\* The request has no `messages` member, or an empty `messages` array.
MessagesMissingOrEmpty ==
    /\ Handled
    /\ \/ IsUndef(req)
       \/ IsObject(req) /\ (IsUndef(req.messages) \/ req.messages = Arr(<<>>))

\* C1 as stated: a request without messages, or with an empty messages array,
\* is answered 400 BAD_REQUEST without a provider call, whatever the
\* configuration, also when no credential is configured.
C1_Original == MessagesMissingOrEmpty => InputError /\ calls = <<>>

\* C1 as amended: a request without messages, or with an empty messages array,
\* makes no provider call in any configuration, is answered exactly once, and
\* is answered 400 BAD_REQUEST whenever a credential is configured.
C1_InputErrorWithKey ==
    MessagesMissingOrEmpty =>
        /\ calls = <<>>
        /\ AnsweredOnce
        /\ HasKey => InputError

C1_Witness ==
    /\ MessagesMissingOrEmpty /\ HasKey /\ InputError
    /\ IsObject(req) /\ req.messages = Arr(<<>>)

\* The content of the last message of a request that has one.
HasLast == Handled /\ IsObject(req) /\ IsArray(req.messages) /\ req.messages.v # <<>>
LastMsg == req.messages.v[Len(req.messages.v)]
LastIsBlank ==
    HasLast /\ IsString(LastMsg.content) /\ Trim(LastMsg.content.v) = <<>>

\* C2 as stated: a request whose last content is empty or whitespace-only is
\* answered 200 with the canned greeting, without a provider call.
C2_Original == LastIsBlank => Greeted /\ calls = <<>>

\* C2 as amended: such a request makes no provider call and is answered
\* once; with a credential configured, an empty last content is answered
\* 400 BAD_REQUEST, and a whitespace-only one in a request that passes
\* validation is answered 200 with the canned greeting.
C2_GreetingFastPath ==
    LastIsBlank =>
        /\ calls = <<>>
        /\ AnsweredOnce
        /\ (HasKey /\ LastMsg.content.v = <<>>) => InputError
        /\ (HasKey /\ AskIssues(req) = {}) => Greeted

C2_Witness ==
    LastIsBlank /\ HasKey /\ LastMsg.content.v # <<>> /\ Greeted /\ calls = <<>>

\* C3: every failure response carries both an `error` member and a `message`
\* member.
C3_ErrorAndMessage ==
    (Answered /\ Status >= 400) => {"error", "message"} \subseteq DOMAIN ResBody

\* C4: without a credential every request, whatever its body, is answered 503
\* GEMINI_API_KEY_MISSING and no provider call is made.
C4_KeyMissing ==
    (Handled /\ ~HasKey) =>
        /\ AnsweredOnce
        /\ Status = 503
        /\ ErrorIs("GEMINI_API_KEY_MISSING")
        /\ DOMAIN ResBody = {"error", "message"}
        /\ calls = <<>>

C4_Witness ==
    /\ Handled /\ ~HasKey /\ Answered /\ Status = 503
    /\ IsObject(req) /\ req.intent = Str(<<"o", "t", "h", "e", "r">>)
    /\ req.messages = Arr(<<>>)

\* What result.response.text() gave, when there is a response with a text
\* function that returned: "" stands for a missing or non-string value.
TextReturned ==
    /\ outcome.kind = "resolved"
    /\ IsObject(outcome.result.response)
       => IsUndef(outcome.result.response.text)
          \/ outcome.result.response.text.completion.kind = "return"
ProviderText ==
    IF ~IsObject(outcome.result.response) THEN <<>>
    ELSE IF IsUndef(outcome.result.response.text) THEN <<>>
    ELSE IF IsString(outcome.result.response.text.completion.value)
         THEN outcome.result.response.text.completion.value.v
    ELSE <<>>

\* C5: when the provider call returned, a text that is empty after trimming
\* is answered 502 EMPTY_RESPONSE, any other text 200 with the trimmed text
\* as the answer.
C5_ProviderText ==
    (Answered /\ TextReturned) =>
        /\ AnsweredOnce
        /\ IF Trim(ProviderText) = <<>>
           THEN Status = 502 /\ ErrorIs("EMPTY_RESPONSE")
           ELSE Status = 200 /\ ResBody = [answer |-> Str(Trim(ProviderText))]

C5_Witness ==
    /\ Answered /\ TextReturned /\ Status = 200
    /\ Trim(ProviderText) # <<>> /\ Trim(ProviderText) # ProviderText
    /\ ResBody.answer.v = <<"h", " ", "i">>

\* The exception the provider call raised, from sendMessage or from text().
Threw == outcome.kind = "rejected" \/ (outcome.kind = "resolved" /\ ~TextReturned)
Thrown ==
    IF outcome.kind = "rejected" THEN outcome.err
    ELSE outcome.result.response.text.completion.value
ThrownField(f) == IF IsObject(Thrown) THEN Thrown[f] ELSE Undef

\* C6: when the provider call throws, the answer is 502 with a body of only
\* `error` (AI_ERROR), `message` and, when the exception has a code or else a
\* status, `code`; neither the stack nor the name of the exception is in it.
C6_ErrorBody ==
    (Answered /\ Threw) =>
        /\ AnsweredOnce
        /\ Status = 502
        /\ ErrorIs("AI_ERROR")
        /\ "message" \in DOMAIN ResBody
        /\ DOMAIN ResBody \subseteq {"error", "code", "message"}
        /\ "code" \in DOMAIN ResBody =>
              ResBody.code = IF Truthy(ThrownField("code"))
                             THEN ThrownField("code") ELSE ThrownField("status")
        /\ "code" \notin DOMAIN ResBody =>
              ~Truthy(ThrownField("code")) /\ IsUndef(ThrownField("status"))
        /\ \A k \in DOMAIN ResBody :
              IsObject(Thrown) => ResBody[k] \notin {Thrown.stack, Thrown.name}

C6_Witness ==
    /\ Answered /\ outcome.kind = "rejected" /\ IsObject(Thrown)
    /\ Status = 502 /\ DOMAIN ResBody = {"error", "code", "message"}
    /\ ResBody.code = Whole(429)

\* A member that is present and is not what the schema allows.
BadIntent(x) ==
    ~IsUndef(x) /\ ~(IsString(x) /\ x.v \in {S_news, S_jobs, S_consult})
BadMaxOutputTokens(x) ==
    ~IsUndef(x) /\ ~(IsNumber(x) /\ x.v % 1000 = 0 /\ x.v >= 64000 /\ x.v <= 2048000)
BadTemperature(x) == ~IsUndef(x) /\ ~(IsNumber(x) /\ x.v >= 0 /\ x.v <= 1000)
OptionBad ==
    /\ Handled /\ IsObject(req)
    /\ \/ BadIntent(req.intent)
       \/ BadMaxOutputTokens(req.maxOutputTokens)
       \/ BadTemperature(req.temperature)

\* A request that is valid and whose maxOutputTokens or temperature sits on a
\* bound of its range.
OnBoundary ==
    /\ Handled /\ IsObject(req)
    /\ MessagesIssues(req.messages) = {} /\ ProfileIssues(req.profile) = {}
    /\ ~BadIntent(req.intent)
    /\ req.maxOutputTokens \in {Undef, Whole(64), Whole(2048)}
    /\ req.temperature \in {Undef, Frac(0), Frac(1000)}
    /\ ~(IsUndef(req.maxOutputTokens) /\ IsUndef(req.temperature))
BoundaryAccepted ==
    OnBoundary =>
        /\ Answered => Status # 400
        /\ (HasKey /\ ~LastIsBlank) =>
              /\ Len(calls) = 1
              /\ ~IsUndef(req.maxOutputTokens) =>
                    calls[1].generationConfig.maxOutputTokens = req.maxOutputTokens
              /\ ~IsUndef(req.temperature) =>
                    calls[1].generationConfig.temperature = req.temperature

\* C7 as stated: a request with an intent outside news/jobs/consult, a
\* maxOutputTokens that is no integer of [64,2048] or a temperature outside
\* [0,1] is answered 400 BAD_REQUEST and never reaches the provider; the
\* bounds themselves are accepted.
C7_Original == (OptionBad => InputError /\ calls = <<>>) /\ BoundaryAccepted

\* C7 as amended: such a request never reaches the provider and is answered
\* once, with 400 BAD_REQUEST whenever a credential is configured; the bounds
\* themselves are accepted.
C7_OptionRejectedWithKey ==
    /\ OptionBad =>
          /\ calls = <<>>
          /\ AnsweredOnce
          /\ HasKey => InputError
    /\ BoundaryAccepted

C7_Witness ==
    /\ OptionBad /\ HasKey /\ InputError
    /\ req.maxOutputTokens = Whole(2049) /\ req.temperature = Frac(1000)
    /\ ~BadIntent(req.intent) /\ MessagesIssues(req.messages) = {}

\* The request passes the credential check, validation and the blank check.
ReachesProvider ==
    /\ Handled /\ HasKey
    /\ AskIssues(BodyOrEmpty(req)) = {}
    /\ ~LastIsBlank

\* C8: a request makes at most one provider call and gets exactly one
\* response; one that passes the three checks makes exactly one call, and no
\* outcome of that call leads to a second call or a second response.
C8_SingleShot ==
    /\ Len(calls) <= 1
    /\ Len(responses) <= 1
    /\ Answered => Len(responses) = 1
    /\ pc = "awaiting" => Len(calls) = 1 /\ responses = <<>>
    /\ ReachesProvider <=> (Handled /\ Len(calls) = 1)
    /\ outcome.kind # "none" => Len(calls) = 1 /\ Len(responses) = 1

C8_Witness ==
    /\ ReachesProvider /\ Answered /\ outcome.kind = "resolved"
    /\ Status = 502 /\ ErrorIs("EMPTY_RESPONSE")
    /\ Len(calls) = 1 /\ Len(responses) = 1

\* The roles and texts a sequence of messages is forwarded with.
RoleSent(m) == IF m.role = Str(S_assistant) THEN Str(S_model) ELSE Str(S_user)
TextSent(c) == IF Len(c.v) > 4000 THEN Str(SubSeq(c.v, 1, 4000)) ELSE c
TurnSent(m) == [role |-> RoleSent(m), parts |-> <<[text |-> TextSent(m.content)]>>]
NotBlank(m) == Trim(m.content.v) # <<>>

\* A provider call was made for a request with more than 6 messages before
\* its last one.
LongHistory == Handled /\ Len(calls) >= 1 /\ Len(req.messages.v) > 7
Last6 ==
    [i \in 1..6 |-> req.messages.v[Len(req.messages.v) - 7 + i]]
HeadTurns ==
    /\ Len(calls[1].history) >= 2
    /\ calls[1].history[1].role = Str(S_user)
    /\ calls[1].history[1].parts =
          <<[text |-> buildSystemPrompt(
                          IF IsUndef(req.intent) THEN Str(S_news) ELSE req.intent,
                          req.profile)]>>
    /\ calls[1].history[2] =
          [role |-> Str(S_model), parts |-> <<[text |-> Str(<<"Siap.">>)]>>]
WindowSent == SubSeq(calls[1].history, 3, Len(calls[1].history))

\* C9 as stated: the forwarded conversation is the system turn, the
\* acknowledgement turn, then exactly the last 6 messages before the final
\* one, in order, assistant sent as model and any other role as user; the
\* final message is the new message and no part of the history.
C9_Original ==
    LongHistory =>
        /\ HeadTurns
        /\ WindowSent = [i \in 1..6 |-> TurnSent(Last6[i])]
        /\ calls[1].message = TextSent(LastMsg.content)

\* C9 as amended: the forwarded conversation is the system turn, the
\* acknowledgement turn, then those of the last 6 messages before the final
\* one whose content is not whitespace-only, in order, assistant sent as
\* model and any other role as user; the final message is the new message
\* and no part of the history.
C9_HistoryWindow ==
    LongHistory =>
        /\ HeadTurns
        /\ LET kept == SelectSeq(Last6, NotBlank)
           IN WindowSent = [i \in 1..Len(kept) |-> TurnSent(kept[i])]
        /\ calls[1].message = TextSent(LastMsg.content)

C9_Witness ==
    /\ LongHistory /\ Len(WindowSent) = 6
    /\ \E i \in 1..6 : Last6[i].role = Str(S_system) /\ WindowSent[i].role = Str(S_user)
    /\ \E i \in 1..6 : WindowSent[i].role = Str(S_model)

\* C10: every text forwarded to the provider, in the history window and as
\* the new message, has at most 4000 characters: a longer content is
\* forwarded as its first 4000 characters, any other unchanged.
C10_Clamped ==
    (Handled /\ Len(calls) >= 1) =>
        /\ Len(calls[1].message.v) <= 4000
        /\ calls[1].message = TextSent(LastMsg.content)
        /\ \A i \in 1..Len(WindowSent) : Len(WindowSent[i].parts[1].text.v) <= 4000
        /\ LET n == Len(req.messages.v)
               prior == SubSeq(req.messages.v, IF n > 7 THEN n - 6 ELSE 1, n - 1)
               kept == SelectSeq(prior, NotBlank)
           IN [i \in 1..Len(WindowSent) |-> WindowSent[i].parts[1].text]
                 = [i \in 1..Len(kept) |-> TextSent(kept[i].content)]

C10_Witness ==
    /\ Handled /\ Len(calls) >= 1
    /\ Len(LastMsg.content.v) > 4000 /\ Len(calls[1].message.v) = 4000
    /\ calls[1].message.v = SubSeq(LastMsg.content.v, 1, 4000)
    /\ Len(WindowSent) = 1 /\ Len(req.messages.v[1].content.v) > 4000
    /\ Len(WindowSent[1].parts[1].text.v) = 4000

====
